---------------------------- MODULE Spec2Model ----------------------------
(***************************************************************************)
(* A model of the boid flock of src/src/Boid.ts and of its driver, the     *)
(* page script src/unnamed/part_000 (the last of the three versions of     *)
(* index.ts in the repository).                                            *)
(*                                                                         *)
(* Numbers.  The program computes in IEEE doubles.  The model computes in  *)
(* fixed point: a scalar is an integer count of hundredths (Unit = 1.0),   *)
(* the coarsest grid on which MAX_SPEED = 0.5 and MAX_FORCE = 0.13 are     *)
(* exact.  Quotients and products truncate toward zero and a square root   *)
(* rounds up to the next hundredth, so that the rounding of the grid never *)
(* lifts the magnitude of a rescaled vector above its exact value.  NaN is *)
(* kept: a vector is either three grid numbers or NaNVec, a scalar that    *)
(* can be NaN is a number >= 0 or NaNScalar, and every comparison with NaN *)
(* is false, as in IEEE arithmetic.                                        *)
(***************************************************************************)
EXTENDS Integers, Sequences, FiniteSets, TLC

\* Boid.MAX_SPEED = 0.5, in hundredths.
MAX_SPEED == 50
\* Boid.MAX_FORCE = 0.13, in hundredths.
MAX_FORCE == 13
\* Boid.NEIGHBOR_DIST = 5, in hundredths.
NEIGHBOR_DIST == 500
\* Boid.DESIRED_SEPARATION = 4, in hundredths.
DESIRED_SEPARATION == 400
\* 1.0 on the grid.
Unit == 2 * MAX_SPEED

\* The number of boids the page creates (NUM_BOIDS, 350 in the source).
NumBoids == 2
\* How many times animate() may run its loop in one behaviour.
MaxTicks == 4
\* How many requestAnimationFrame callbacks may be pending at once.
MaxPending == 2

Axes == {"x", "y", "z"}

(***************************************************************************)
(* THREE.Vector3 and the scalar functions the program uses.                *)
(***************************************************************************)
Vec(a, b, c) == [x |-> a, y |-> b, z |-> c, nan |-> FALSE]
NaNVec == [x |-> 0, y |-> 0, z |-> 0, nan |-> TRUE]
ZeroVec == Vec(0, 0, 0)
NaNScalar == 0 - 1

\* Static bounds of Boid.ts (default +-25).
BOUNDS_MIN == Vec(0 - 25 * Unit, 0 - 25 * Unit, 0 - 25 * Unit)
BOUNDS_MAX == Vec(25 * Unit, 25 * Unit, 25 * Unit)

\* a / b for b > 0, truncated toward zero.
TruncDiv(a, b) == IF a >= 0 THEN a \div b ELSE 0 - ((0 - a) \div b)

RECURSIVE SqrtSearch(_, _, _)
\* The least r in lo..hi with r * r >= n (hi * hi >= n).
SqrtSearch(n, lo, hi) ==
    IF lo >= hi THEN hi
    ELSE LET mid == (lo + hi) \div 2
         IN  IF mid * mid >= n THEN SqrtSearch(n, lo, mid)
             ELSE SqrtSearch(n, mid + 1, hi)

\* Math.sqrt on the grid, rounded up.
Sqrt(n) == IF n <= 1 THEN n ELSE SqrtSearch(n, 1, 46340)

Min2(a, b) == IF a < b THEN a ELSE b
Max2(a, b) == IF a > b THEN a ELSE b

\* Vector3.add / sub / subVectors.
Add(a, b) ==
    IF a.nan \/ b.nan THEN NaNVec ELSE Vec(a.x + b.x, a.y + b.y, a.z + b.z)
Sub(a, b) ==
    IF a.nan \/ b.nan THEN NaNVec ELSE Vec(a.x - b.x, a.y - b.y, a.z - b.z)

\* Vector3.multiplyScalar, the scalar s in hundredths.
MultiplyScalar(v, s) ==
    IF v.nan \/ s = NaNScalar THEN NaNVec
    ELSE Vec(TruncDiv(v.x * s, Unit), TruncDiv(v.y * s, Unit), TruncDiv(v.z * s, Unit))

\* Vector3.divideScalar(s) is multiplyScalar(1 / s).  With s = 0 the factor
\* is Infinity; the program divides by 0 only the zero vector (a difference
\* of two equal positions by their distance), and 0 * Infinity is NaN.
DivideScalar(v, s) ==
    IF v.nan \/ s = NaNScalar \/ s = 0 THEN NaNVec
    ELSE Vec(TruncDiv(v.x * Unit, s), TruncDiv(v.y * Unit, s), TruncDiv(v.z * Unit, s))

\* Vector3.length.
Length(v) == IF v.nan THEN NaNScalar ELSE Sqrt(v.x * v.x + v.y * v.y + v.z * v.z)

\* Vector3.distanceTo.
DistanceTo(a, b) == Length(Sub(a, b))

\* a < b and a > b of two doubles, false when a is NaN.
Less(a, b) == a # NaNScalar /\ a < b
Greater(a, b) == a # NaNScalar /\ a > b

\* `length || 1`: 0 and NaN are falsy.
OrOne(l) == IF l = NaNScalar \/ l = 0 THEN Unit ELSE l

\* Vector3.normalize: divideScalar(length() || 1).
Normalize(v) == DivideScalar(v, OrOne(Length(v)))

\* Vector3.setLength: normalize().multiplyScalar(length).
SetLength(v, l) == MultiplyScalar(Normalize(v), l)

\* Vector3.clampLength(min, max):
\*   divideScalar(length || 1).multiplyScalar(max(min, min(max, length))).
\* Math.min and Math.max return NaN for a NaN length.  A length inside
\* [min, max] is divided out and multiplied back, which in doubles returns
\* the vector to within one ulp: on the grid, unchanged.
ClampToLength(v, l, lo, hi) ==
    IF v.nan THEN NaNVec
    ELSE IF l >= lo /\ l <= hi THEN v
    ELSE MultiplyScalar(DivideScalar(v, OrOne(l)), Max2(lo, Min2(hi, l)))

\* clampLength with `const length = this.length()` evaluated.
ClampLength(v, lo, hi) == ClampToLength(v, Length(v), lo, hi)

\* THREE.MathUtils.lerp(x, y, t) = (1 - t) * x + t * y.
Lerp(x, y, t) == TruncDiv((Unit - t) * x + t * y, Unit)

\* The squared magnitude of a vector that is not NaN.
LengthSq(v) == v.x * v.x + v.y * v.y + v.z * v.z

(***************************************************************************)
(* THREE.Quaternion, as far as Boid.update uses it.                        *)
(***************************************************************************)
Quat(a, b, c, d) == [x |-> a, y |-> b, z |-> c, w |-> d, nan |-> FALSE]
NaNQuat == [x |-> 0, y |-> 0, z |-> 0, w |-> 0, nan |-> TRUE]
\* The quaternion of a new Mesh.
IdentityQuat == Quat(0, 0, 0, Unit)

\* Quaternion.normalize: the identity for length 0, else scaled by 1 / length.
QuatScale(q, l) ==
    IF q.nan THEN NaNQuat
    ELSE IF l = 0 THEN IdentityQuat
    ELSE Quat(TruncDiv(q.x * Unit, l), TruncDiv(q.y * Unit, l),
              TruncDiv(q.z * Unit, l), TruncDiv(q.w * Unit, l))

\* Quaternion.normalize with `let l = this.length()` evaluated.
QuatNormalize(q) ==
    QuatScale(q, IF q.nan THEN NaNScalar
                 ELSE Sqrt(q.x * q.x + q.y * q.y + q.z * q.z + q.w * q.w))

\* Quaternion.setFromUnitVectors(up, vTo) with up = (0, 1, 0):
\*   r = up . vTo + 1; if r < EPSILON the half turn (0, -up.z, up.y, 0),
\*   else (up x vTo, r); then normalize().
SetFromUnitVectors(vTo) ==
    IF vTo.nan THEN NaNQuat
    ELSE LET r == vTo.y + Unit
         IN  IF r <= 0 THEN QuatNormalize(Quat(0, 0, Unit, 0))
             ELSE QuatNormalize(Quat(vTo.z, 0, 0 - vTo.x, r))


(***************************************************************************)
(* class Boid (src/src/Boid.ts).  A boid is a record of its three vectors  *)
(* and of the two fields of its mesh the class writes.                     *)
(***************************************************************************)
Mesh(p, q) == [position |-> p, quaternion |-> q]

\* The constructor: rp and rv are the six values Math.random() returns, in
\* hundredths (0 <= r < Unit).
NewBoid(rp, rv) ==
    [position |-> Vec(Lerp(BOUNDS_MIN.x, BOUNDS_MAX.x, rp[1]),
                      Lerp(BOUNDS_MIN.y, BOUNDS_MAX.y, rp[2]),
                      Lerp(BOUNDS_MIN.z, BOUNDS_MAX.z, rp[3])),
     velocity |-> MultiplyScalar(
                      Normalize(Vec(rv[1] - Unit \div 2, rv[2] - Unit \div 2,
                                    rv[3] - Unit \div 2)),
                      MAX_SPEED),
     acceleration |-> ZeroVec,
     mesh |-> Mesh(ZeroVec, IdentityQuat)]

\* applyForce(force).
ApplyForce(b, force) == [b EXCEPT !.acceleration = Add(b.acceleration, force)]

RECURSIVE SeparationLoop(_, _, _, _, _)
RECURSIVE SeparationBody(_, _, _, _, _, _)
\* The for loop of separation(), from boids[k] on: <<steer, count>>.
SeparationLoop(bs, i, k, steer, count) ==
    IF k > Len(bs) THEN <<steer, count>>
    ELSE SeparationBody(bs, i, k, steer, count,
                        DistanceTo(bs[i].position, bs[k].position))

\* The body of that loop for boids[k], d its distance.
SeparationBody(bs, i, k, steer, count, d) ==
    IF k # i /\ Less(d, DESIRED_SEPARATION)
    THEN SeparationLoop(bs, i, k + 1,
             Add(steer, DivideScalar(Normalize(Sub(bs[i].position, bs[k].position)), d)),
             count + 1)
    ELSE SeparationLoop(bs, i, k + 1, steer, count)

\* The statements of separation() after `if (count > 0) steer.divideScalar(count)`.
SeparationSteer(b, steer) ==
    IF Greater(Length(steer), 0)
    THEN ClampLength(Sub(SetLength(steer, MAX_SPEED), b.velocity), 0, MAX_FORCE)
    ELSE steer

\* `if (count > 0) steer.divideScalar(count)`, r the <<steer, count>> of the loop.
SeparationAverage(r) == IF r[2] > 0 THEN DivideScalar(r[1], r[2] * Unit) ELSE r[1]

\* separation(boids) of boids[i].
Separation(bs, i) ==
    SeparationSteer(bs[i], SeparationAverage(SeparationLoop(bs, i, 1, ZeroVec, 0)))

RECURSIVE NeighborLoop(_, _, _, _, _, _)
\* The for loop of alignment() (field = "velocity") and of cohesion()
\* (field = "position"), from boids[k] on: <<sum, count>>.
NeighborLoop(bs, i, k, field, sum, count) ==
    IF k > Len(bs) THEN <<sum, count>>
    ELSE IF k # i /\ Less(DistanceTo(bs[i].position, bs[k].position), NEIGHBOR_DIST)
    THEN NeighborLoop(bs, i, k + 1, field, Add(sum, bs[k][field]), count + 1)
    ELSE NeighborLoop(bs, i, k + 1, field, sum, count)

\* The statements of alignment() after its loop, r the <<sum, count>> of the loop.
AlignmentSteer(b, r) ==
    IF r[2] = 0 THEN ZeroVec
    ELSE ClampLength(
             Sub(SetLength(DivideScalar(r[1], r[2] * Unit), MAX_SPEED), b.velocity),
             0, MAX_FORCE)

\* alignment(boids) of boids[i].
Alignment(bs, i) ==
    AlignmentSteer(bs[i], NeighborLoop(bs, i, 1, "velocity", ZeroVec, 0))

\* seek(target) of the boid b.
Seek(b, target) ==
    ClampLength(Sub(SetLength(Sub(target, b.position), MAX_SPEED), b.velocity),
                0, MAX_FORCE)

\* The statements of cohesion() after its loop, r the <<sum, count>> of the loop.
CohesionSteer(b, r) ==
    IF r[2] = 0 THEN ZeroVec ELSE Seek(b, DivideScalar(r[1], r[2] * Unit))

\* cohesion(boids) of boids[i].
Cohesion(bs, i) ==
    CohesionSteer(bs[i], NeighborLoop(bs, i, 1, "position", ZeroVec, 0))

\* flock(boids) of boids[i]: the boid after the three applyForce calls.
Flock(bs, i) ==
    ApplyForce(
        ApplyForce(
            ApplyForce(bs[i], MultiplyScalar(Separation(bs, i), (3 * Unit) \div 2)),
            MultiplyScalar(Alignment(bs, i), Unit)),
        MultiplyScalar(Cohesion(bs, i), Unit))

\* velocity.add(acceleration); velocity.clampLength(0, MAX_SPEED).
Accelerate(b) ==
    [b EXCEPT !.velocity = ClampLength(Add(b.velocity, b.acceleration), 0, MAX_SPEED)]

\* position.add(velocity); acceleration.set(0, 0, 0).
Move(b) ==
    [b EXCEPT !.position = Add(b.position, b.velocity), !.acceleration = ZeroVec]

\* The first four statements of update() and of updateWithWrap().
Integrate(b) == Move(Accelerate(b))

\* update() that clamps the position and forgets `this.velocity[axis] *= -1`.
ReflectAxisNoFlip(p, v, lo, hi) ==
    <<IF p > hi THEN hi ELSE IF p < lo THEN lo ELSE p, v>>

\* One pass of the loop of update() on one axis: <<position, velocity>>.
ReflectAxis(p, v, lo, hi) ==
    LET p1 == IF p > hi THEN hi ELSE p
        v1 == IF p > hi THEN 0 - v ELSE v
    IN  IF p1 < lo THEN <<lo, 0 - v1>> ELSE <<p1, v1>>

\* The loop of update() over the axes.  A NaN component compares false with
\* both bounds and is left as it is.
Reflect(b) ==
    IF b.position.nan \/ b.velocity.nan THEN b
    ELSE LET rx == ReflectAxis(b.position.x, b.velocity.x, BOUNDS_MIN.x, BOUNDS_MAX.x)
             ry == ReflectAxis(b.position.y, b.velocity.y, BOUNDS_MIN.y, BOUNDS_MAX.y)
             rz == ReflectAxis(b.position.z, b.velocity.z, BOUNDS_MIN.z, BOUNDS_MAX.z)
         IN  [b EXCEPT !.position = Vec(rx[1], ry[1], rz[1]),
                       !.velocity = Vec(rx[2], ry[2], rz[2])]

\* One pass of the loop of updateWithWrap() on one axis.
WrapAxis(p, lo, hi) ==
    LET p1 == IF p > hi THEN lo ELSE p
    IN  IF p1 < lo THEN hi ELSE p1

\* The loop of updateWithWrap() over the axes.
Wrap(b) ==
    IF b.position.nan THEN b
    ELSE [b EXCEPT !.position = Vec(WrapAxis(b.position.x, BOUNDS_MIN.x, BOUNDS_MAX.x),
                                    WrapAxis(b.position.y, BOUNDS_MIN.y, BOUNDS_MAX.y),
                                    WrapAxis(b.position.z, BOUNDS_MIN.z, BOUNDS_MAX.z))]

\* The last four statements of update() and of updateWithWrap().
Orient(b) ==
    [b EXCEPT !.mesh = Mesh(b.position, SetFromUnitVectors(Normalize(b.velocity)))]

\* update().
Update(b) == Orient(Reflect(Integrate(b)))

\* updateWithWrap().
UpdateWithWrap(b) == Orient(Wrap(Integrate(b)))

(***************************************************************************)
(* The steering methods once more, on objects.  The methods of Vector3     *)
(* write into their receiver and return it, so which vector a statement    *)
(* changes depends on which object it is called on.  A heap holds the      *)
(* boids and the vectors the methods allocate, one slot per `new           *)
(* THREE.Vector3()` of the class; a reference names a field of a boid or   *)
(* one of those slots.                                                     *)
(***************************************************************************)
\* The allocation sites of separation, alignment, cohesion and seek, and
\* "arg", a vector of the caller.
TmpNames ==
    {"sep.steer", "sep.diff", "ali.sum", "ali.zero", "coh.sum", "coh.zero",
     "seek.desired", "seek.steer", "arg"}

Tmp(name) == [boid |-> 0, field |-> name]
Ref(k, f) == [boid |-> k, field |-> f]

\* The heap in which a method starts: the boids, the caller's vector.
Heap(bs, arg) == [boids |-> bs, tmp |-> [n \in TmpNames |-> IF n = "arg" THEN arg ELSE ZeroVec]]

Get(h, r) == IF r.boid = 0 THEN h.tmp[r.field] ELSE h.boids[r.boid][r.field]
Set(h, r, v) ==
    IF r.boid = 0 THEN [h EXCEPT !.tmp[r.field] = v]
    ELSE [h EXCEPT !.boids[r.boid][r.field] = v]

\* What a method returns: the heap it leaves and the vector it returns.
Result(h, r) == [h |-> h, ref |-> r]

\* r = new THREE.Vector3().
New(h, r) == Set(h, r, ZeroVec)
\* r.add(a), r.sub(a), r.subVectors(a, b).
AddTo(h, r, a) == Set(h, r, Add(Get(h, r), Get(h, a)))
SubFrom(h, r, a) == Set(h, r, Sub(Get(h, r), Get(h, a)))
SubVectorsInto(h, r, a, b) == Set(h, r, Sub(Get(h, a), Get(h, b)))
\* r.divideScalar(s), r.multiplyScalar(s), r.normalize(), r.setLength(l),
\* r.clampLength(lo, hi).
DivideScalarOf(h, r, s) == Set(h, r, DivideScalar(Get(h, r), s))
MultiplyScalarOf(h, r, s) == Set(h, r, MultiplyScalar(Get(h, r), s))
NormalizeOf(h, r) == Set(h, r, Normalize(Get(h, r)))
SetLengthOf(h, r, l) == Set(h, r, SetLength(Get(h, r), l))
ClampLengthOf(h, r, lo, hi) == Set(h, r, ClampLength(Get(h, r), lo, hi))

\* this.position.distanceTo(other.position), this boids[i], other boids[k].
DistanceAt(h, i, k) == DistanceTo(Get(h, Ref(i, "position")), Get(h, Ref(k, "position")))

\* applyForce(force): this.acceleration.add(force).
ApplyForceAt(h, i, force) == AddTo(h, Ref(i, "acceleration"), force)

RECURSIVE SeparationLoopAt(_, _, _, _)
RECURSIVE SeparationBodyAt(_, _, _, _, _)
\* The for loop of separation(), from boids[k] on: steer is "sep.steer".
SeparationLoopAt(h, i, k, count) ==
    IF k > Len(h.boids) THEN [h |-> h, count |-> count]
    ELSE SeparationBodyAt(h, i, k, count, DistanceAt(h, i, k))

\* The body of that loop for boids[k], d its distance: diff is "sep.diff".
SeparationBodyAt(h, i, k, count, d) ==
    IF k # i /\ Less(d, DESIRED_SEPARATION)
    THEN SeparationLoopAt(
             AddTo(DivideScalarOf(
                       NormalizeOf(
                           SubVectorsInto(New(h, Tmp("sep.diff")), Tmp("sep.diff"),
                                          Ref(i, "position"), Ref(k, "position")),
                           Tmp("sep.diff")),
                       Tmp("sep.diff"), d),
                   Tmp("sep.steer"), Tmp("sep.diff")),
             i, k + 1, count + 1)
    ELSE SeparationLoopAt(h, i, k + 1, count)

\* `if (count > 0) steer.divideScalar(count)`, r the heap and the count the
\* loop leaves.
SeparationAverageAt(r) ==
    IF r.count > 0 THEN DivideScalarOf(r.h, Tmp("sep.steer"), r.count * Unit) ELSE r.h

\* `if (steer.length() > 0) { ... } return steer`.
SeparationSteerAt(h, i) ==
    Result(IF Greater(Length(Get(h, Tmp("sep.steer"))), 0)
           THEN ClampLengthOf(
                    SubFrom(SetLengthOf(h, Tmp("sep.steer"), MAX_SPEED),
                            Tmp("sep.steer"), Ref(i, "velocity")),
                    Tmp("sep.steer"), 0, MAX_FORCE)
           ELSE h,
           Tmp("sep.steer"))

\* separation(boids) of boids[i].
SeparationAt(h, i) ==
    SeparationSteerAt(SeparationAverageAt(SeparationLoopAt(New(h, Tmp("sep.steer")), i, 1, 0)), i)

RECURSIVE NeighborLoopAt(_, _, _, _, _, _)
\* The for loop of alignment() (field = "velocity") and of cohesion()
\* (field = "position"), from boids[k] on, sum the vector it adds to.
NeighborLoopAt(h, i, k, field, sum, count) ==
    IF k > Len(h.boids) THEN [h |-> h, count |-> count]
    ELSE IF k # i /\ Less(DistanceAt(h, i, k), NEIGHBOR_DIST)
    THEN NeighborLoopAt(AddTo(h, sum, Ref(k, field)), i, k + 1, field, sum, count + 1)
    ELSE NeighborLoopAt(h, i, k + 1, field, sum, count)

\* alignment() that writes `this.velocity.sub(sum)` for `sum.sub(this.velocity)`.
AlignmentSubSwapped(h, i) == SubFrom(h, Ref(i, "velocity"), Tmp("ali.sum"))

\* `const steer = sum.sub(this.velocity)`: steer is the object sum.
AlignmentSub(h, i) == SubFrom(h, Tmp("ali.sum"), Ref(i, "velocity"))

\* The statements of alignment() after its loop, r the heap and the count
\* the loop leaves.
AlignmentSteerAt(r, i) ==
    IF r.count = 0 THEN Result(New(r.h, Tmp("ali.zero")), Tmp("ali.zero"))
    ELSE Result(ClampLengthOf(
                    AlignmentSub(
                        SetLengthOf(DivideScalarOf(r.h, Tmp("ali.sum"), r.count * Unit),
                                    Tmp("ali.sum"), MAX_SPEED),
                        i),
                    Tmp("ali.sum"), 0, MAX_FORCE),
                Tmp("ali.sum"))

\* alignment(boids) of boids[i].
AlignmentAt(h, i) ==
    AlignmentSteerAt(
        NeighborLoopAt(New(h, Tmp("ali.sum")), i, 1, "velocity", Tmp("ali.sum"), 0), i)

\* seek(target) of boids[i], target a reference.
SeekAt(h, i, target) ==
    Result(ClampLengthOf(
               SubVectorsInto(
                   New(SetLengthOf(
                           SubVectorsInto(New(h, Tmp("seek.desired")), Tmp("seek.desired"),
                                          target, Ref(i, "position")),
                           Tmp("seek.desired"), MAX_SPEED),
                       Tmp("seek.steer")),
                   Tmp("seek.steer"), Tmp("seek.desired"), Ref(i, "velocity")),
               Tmp("seek.steer"), 0, MAX_FORCE),
           Tmp("seek.steer"))

\* The statements of cohesion() after its loop.
CohesionSteerAt(r, i) ==
    IF r.count = 0 THEN Result(New(r.h, Tmp("coh.zero")), Tmp("coh.zero"))
    ELSE SeekAt(DivideScalarOf(r.h, Tmp("coh.sum"), r.count * Unit), i, Tmp("coh.sum"))

\* cohesion(boids) of boids[i].
CohesionAt(h, i) ==
    CohesionSteerAt(
        NeighborLoopAt(New(h, Tmp("coh.sum")), i, 1, "position", Tmp("coh.sum"), 0), i)

\* `.multiplyScalar(s)` on the vector a steering method returned.
Scaled(r, s) == Result(MultiplyScalarOf(r.h, r.ref, s), r.ref)

\* The three applyForce calls of flock(), coh what cohesion scaled left.
FlockApply(separation, alignment, coh, i) ==
    ApplyForceAt(ApplyForceAt(ApplyForceAt(coh.h, i, separation), i, alignment), i, coh.ref)

\* `const cohesion = this.cohesion(boids).multiplyScalar(1.0)` and the rest.
FlockCohesion(separation, ali, i) ==
    FlockApply(separation, ali.ref, Scaled(CohesionAt(ali.h, i), Unit), i)

\* `const alignment = this.alignment(boids).multiplyScalar(1.0)` and the rest.
FlockAlignment(sep, i) ==
    FlockCohesion(sep.ref, Scaled(AlignmentAt(sep.h, i), Unit), i)

\* flock(boids) of boids[i]: the heap it leaves.
FlockAt(h, i) == FlockAlignment(Scaled(SeparationAt(h, i), (3 * Unit) \div 2), i)

(***************************************************************************)
(* The page script (src/unnamed/part_000).                                 *)
(*                                                                         *)
(* Program state: boids, animating, mouse3D, targetMarker, and pending,    *)
(* the number of animate callbacks requestAnimationFrame holds; loaded     *)
(* tells whether the script has run to its end.  ticks counts the runs of  *)
(* the loop of animate() and the calls of the class harness below.         *)
(*                                                                         *)
(* History, written by the actions and read only by the properties:        *)
(*   tick        the last run of the loop of animate(): the boids it       *)
(*               started from, what each flock() call read, whether it     *)
(*               threw, how many boids it updated;                         *)
(*   last        per boid, its last update()/updateWithWrap() call: the    *)
(*               orientation before the call, the position and velocity    *)
(*               after the integration;                                    *)
(*   frameSteps  how many times the last frame ran the loop;               *)
(*   pausedSnap  the boids when the space key last paused;                 *)
(*   ret         what the last steering calls returned;                    *)
(*   flocked     the last flock() call of the class harness and the boids  *)
(*               it started from, until another call changes the boids.    *)
(***************************************************************************)
VARIABLES boids, animating, mouse3D, targetMarker, pending, loaded, ticks,
          tick, last, frameSteps, pausedSnap, ret, flocked

vars == <<boids, animating, mouse3D, targetMarker, pending, loaded, ticks,
          tick, last, frameSteps, pausedSnap, ret, flocked>>

\* mouse3D = null.
Null == [x |-> 0, y |-> 0, z |-> 0, nan |-> FALSE, null |-> TRUE]
Point(a, b, c) == [x |-> a, y |-> b, z |-> c, nan |-> FALSE, null |-> FALSE]

\* class Boid declares applyForce, separation, alignment, cohesion, seek,
\* flock, updateWithWrap and update, and no avoidObstacles: the call
\* boid.avoidObstacles(...) of animate() is a call of undefined and throws
\* a TypeError.
BoidMethods ==
    {"applyForce", "separation", "alignment", "cohesion", "seek", "flock",
     "updateWithWrap", "update"}

NoCall == [called |-> FALSE, method |-> "", quaternion |-> IdentityQuat,
           mid |-> [position |-> ZeroVec, velocity |-> ZeroVec]]
NoTick == [start |-> <<>>, views |-> <<>>, threw |-> FALSE, updated |-> 0]
NoRet == [called |-> FALSE, of |-> "", boid |-> 0, value |-> ZeroVec]
NoFlock == [called |-> FALSE, boid |-> 0, before |-> <<>>]

\* update() after its first four statements.
Bounce(b) == Orient(Reflect(b))

\* The history of one call: the orientation before it, the position and the
\* velocity after its first four statements.
History(method, b, mid) ==
    [called |-> TRUE, method |-> method, quaternion |-> b.mesh.quaternion,
     mid |-> [position |-> mid.position, velocity |-> mid.velocity]]

\* What flock() reads of the boids: their positions and velocities.
View(bs) == [j \in 1..Len(bs) |-> [position |-> bs[j].position, velocity |-> bs[j].velocity]]

\* One update() call of the boid b, mid the boid after the first four
\* statements: the boid and the history of the call.
UpdateCall(b, mid) ==
    [boid |-> Bounce(mid), hist |-> History("update", b, mid)]

\* One updateWithWrap() call of the boid b, likewise.
UpdateWithWrapCall(b, mid) ==
    [boid |-> Orient(Wrap(mid)), hist |-> History("updateWithWrap", b, mid)]

RECURSIVE BoidLoop(_, _, _, _, _)
RECURSIVE BoidBody(_, _, _, _, _, _)
RECURSIVE BoidUpdate(_, _, _, _, _, _)
\* The loop `for (const boid of boids)` of animate(), from boids[i] on.
BoidLoop(bs, i, m, t, l) ==
    IF i > Len(bs) THEN [boids |-> bs, tick |-> t, last |-> l]
    ELSE BoidBody(bs, i, m, [t EXCEPT !.views = Append(t.views, View(bs))], l, Flock(bs, i))

\* The body of that loop after boid.flock(boids), b the boid flock() left.
\* With a pointer target the body throws at boid.avoidObstacles, after
\* seek() and before applyForce(steer) and update().
BoidBody(bs, i, m, t, l, b) ==
    IF ~m.null
    THEN IF "avoidObstacles" \in BoidMethods
         THEN BoidUpdate(bs, i, m, t, l, ApplyForce(b, Seek(b, m)))
         ELSE [boids |-> [bs EXCEPT ![i] = b], tick |-> [t EXCEPT !.threw = TRUE],
               last |-> l]
    ELSE BoidUpdate(bs, i, m, t, l, b)

\* boid.update() and the rest of the loop.
BoidUpdate(bs, i, m, t, l, b) ==
    LET u == UpdateCall(b, Integrate(b))
    IN  BoidLoop([bs EXCEPT ![i] = u.boid], i + 1, m,
                 [t EXCEPT !.updated = t.updated + 1], [l EXCEPT ![i] = u.hist])

\* animate() without its first statement: requestAnimationFrame(animate),
\* then the loop; controls.update() and renderer.render() read the boids.
AnimateBody(anim, bs, m, l) ==
    [scheduled |-> 1, ran |-> 1,
     loop |-> BoidLoop(bs, 1, m, [NoTick EXCEPT !.start = bs], l)]

\* animate() that forgets `if (!animating) return;`.
AnimateNoGuard(anim, bs, m, l) == AnimateBody(anim, bs, m, l)

\* animate(): `if (!animating) return;` and then the rest.
Animate(anim, bs, m, l) ==
    IF ~anim
    THEN [scheduled |-> 0, ran |-> 0, loop |-> [boids |-> bs, tick |-> NoTick, last |-> l]]
    ELSE AnimateBody(anim, bs, m, l)

RECURSIVE RunCallbacks(_, _, _, _)
RECURSIVE AfterCallback(_, _, _, _, _)
\* The browser runs the n callbacks that were pending when the frame began,
\* one after the other; an exception in one does not stop the next.  acc
\* carries the callbacks scheduled for the next frame, the runs of the loop
\* and the result of the last run.
RunCallbacks(n, anim, m, acc) ==
    IF n = 0 THEN acc
    ELSE AfterCallback(n, anim, m, acc, Animate(anim, acc.loop.boids, m, acc.loop.last))

\* The frame after one callback, r what that call of animate() did.
AfterCallback(n, anim, m, acc, r) ==
    RunCallbacks(n - 1, anim, m,
                 [scheduled |-> acc.scheduled + r.scheduled, ran |-> acc.ran + r.ran,
                  loop |-> IF r.ran = 1 THEN r.loop ELSE acc.loop])

\* The values Math.random() returns to the constructor of one boid: three
\* for the position, three for the velocity, in hundredths.
Seeds ==
    { <<<<0, 0, 0>>, <<0, 0, 0>>>>,
      <<<<0, 0, 0>>, <<50, 50, 50>>>>,
      <<<<6, 0, 0>>, <<99, 50, 50>>>>,
      <<<<9, 0, 0>>, <<0, 50, 50>>>>,
      <<<<50, 99, 50>>, <<99, 99, 50>>>> }

\* The pointer targets of the mousemove events: three points of the box and
\* one outside it.
MousePoints ==
    { Point(0, 0, 0), Point(0 - 25 * Unit, 0 - 25 * Unit, 0 - 25 * Unit),
      Point(30 * Unit, 0, 0) }

\* `point.x >= min.x && point.x <= max.x && ...` of the mousemove listener.
InsideBox(p) ==
    /\ p.x >= BOUNDS_MIN.x /\ p.x <= BOUNDS_MAX.x
    /\ p.y >= BOUNDS_MIN.y /\ p.y <= BOUNDS_MAX.y
    /\ p.z >= BOUNDS_MIN.z /\ p.z <= BOUNDS_MAX.z

\* The state when the script reaches `animate();`: NUM_BOIDS boids built,
\* the listeners installed, no event delivered yet.
Init ==
    /\ boids \in [1..NumBoids -> {NewBoid(s[1], s[2]) : s \in Seeds}]
    /\ animating = TRUE
    /\ mouse3D = Null
    /\ targetMarker = [position |-> ZeroVec, visible |-> FALSE]
    /\ pending = 0
    /\ loaded = FALSE
    /\ ticks = 0
    /\ tick = NoTick
    /\ last = [i \in 1..NumBoids |-> NoCall]
    /\ frameSteps = 0
    /\ pausedSnap = <<>>
    /\ ret = NoRet
    /\ flocked = NoFlock

\* The statement `animate();` that ends the script.
Load ==
    /\ ~loaded
    /\ \E r \in {Animate(animating, boids, mouse3D, last)} :
           /\ boids' = r.loop.boids
           /\ pending' = pending + r.scheduled
           /\ ticks' = ticks + r.ran
           /\ tick' = r.loop.tick
           /\ last' = r.loop.last
    /\ loaded' = TRUE
    /\ UNCHANGED <<animating, mouse3D, targetMarker, frameSteps, pausedSnap, ret, flocked>>

\* The keydown listener, for the space key.
KeyDownSpace ==
    /\ loaded
    /\ animating' = ~animating
    /\ IF animating'
       THEN /\ ticks < MaxTicks
            /\ pending < MaxPending
            /\ \E r \in {Animate(animating', boids, mouse3D, last)} :
                   /\ boids' = r.loop.boids
                   /\ pending' = pending + r.scheduled
                   /\ ticks' = ticks + r.ran
                   /\ tick' = r.loop.tick
                   /\ last' = r.loop.last
            /\ UNCHANGED pausedSnap
       ELSE /\ pausedSnap' = boids
            /\ UNCHANGED <<boids, pending, ticks, tick, last>>
    /\ UNCHANGED <<mouse3D, targetMarker, loaded, frameSteps, ret, flocked>>

\* One animation frame of the browser: every pending callback runs.
Frame ==
    /\ loaded
    /\ pending > 0
    /\ animating => ticks + pending <= MaxTicks
    /\ \E r \in {RunCallbacks(pending, animating, mouse3D,
                              [scheduled |-> 0, ran |-> 0,
                               loop |-> [boids |-> boids, tick |-> tick, last |-> last]])} :
           /\ boids' = r.loop.boids
           /\ pending' = r.scheduled
           /\ ticks' = ticks + r.ran
           /\ tick' = r.loop.tick
           /\ last' = r.loop.last
           /\ frameSteps' = r.ran
    /\ UNCHANGED <<animating, mouse3D, targetMarker, loaded, pausedSnap, ret, flocked>>

\* The mousemove listener; point is where the ray of the pointer ends.
MouseMove(point) ==
    /\ loaded
    /\ mouse3D' = IF InsideBox(point) THEN point ELSE Null
    /\ targetMarker' = IF ~mouse3D'.null
                       THEN [position |-> Vec(point.x, point.y, point.z), visible |-> TRUE]
                       ELSE [targetMarker EXCEPT !.visible = FALSE]
    /\ UNCHANGED <<boids, animating, pending, loaded, ticks, tick, last, frameSteps,
                   pausedSnap, ret, flocked>>

Next ==
    \/ Load
    \/ KeyDownSpace
    \/ Frame
    \/ \E point \in MousePoints : MouseMove(point)

Spec == Init /\ [][Next]_vars

(***************************************************************************)
(* The class on its own: the public methods of Boid called in any order on *)
(* the boids of a small flock, as a test of the class would call them.     *)
(* The page variables keep their initial values.                           *)
(***************************************************************************)
\* How many state-changing calls one behaviour of the harness makes.
MaxCalls == 2

\* The forces the harness applies: none, MAX_FORCE along an axis, and one
\* that is larger than MAX_SPEED.
Forces == { ZeroVec, Vec(MAX_FORCE, 0, 0), Vec(0, 0 - 2 * MAX_SPEED, MAX_FORCE) }

\* The targets the harness seeks: a corner of the box, its centre, a point
\* far outside it.
Targets ==
    { Vec(0 - 25 * Unit, 0 - 25 * Unit, 0 - 25 * Unit), ZeroVec,
      Vec(40 * Unit, 0, 0 - 40 * Unit) }

Returned(name, i, v) == [called |-> TRUE, of |-> name, boid |-> i, value |-> v]

pageVars == <<animating, mouse3D, targetMarker, pending, loaded, tick, frameSteps,
              pausedSnap>>

CallApplyForce(i, f) ==
    /\ ticks < MaxCalls
    /\ boids' = ApplyForceAt(Heap(boids, f), i, Tmp("arg")).boids
    /\ ticks' = ticks + 1
    /\ flocked' = NoFlock
    /\ UNCHANGED <<pageVars, last, ret>>

CallFlock(i) ==
    /\ ticks < MaxCalls
    /\ boids' = FlockAt(Heap(boids, ZeroVec), i).boids
    /\ ticks' = ticks + 1
    /\ flocked' = [called |-> TRUE, boid |-> i, before |-> boids]
    /\ UNCHANGED <<pageVars, last, ret>>

CallUpdate(i) ==
    /\ ticks < MaxCalls
    /\ \E u \in {UpdateCall(boids[i], Integrate(boids[i]))} :
           /\ boids' = [boids EXCEPT ![i] = u.boid]
           /\ last' = [last EXCEPT ![i] = u.hist]
    /\ ticks' = ticks + 1
    /\ flocked' = NoFlock
    /\ UNCHANGED <<pageVars, ret>>

CallUpdateWithWrap(i) ==
    /\ ticks < MaxCalls
    /\ \E u \in {UpdateWithWrapCall(boids[i], Integrate(boids[i]))} :
           /\ boids' = [boids EXCEPT ![i] = u.boid]
           /\ last' = [last EXCEPT ![i] = u.hist]
    /\ ticks' = ticks + 1
    /\ flocked' = NoFlock
    /\ UNCHANGED <<pageVars, ret>>

\* A steering call: the boids are those of the heap the method leaves, the
\* value returned the vector its result refers to.
Steered(name, i, r) ==
    /\ ret' = Returned(name, i, Get(r.h, r.ref))
    /\ boids' = r.h.boids
    /\ UNCHANGED <<pageVars, ticks, last, flocked>>

CallSeparation(i) == Steered("separation", i, SeparationAt(Heap(boids, ZeroVec), i))

CallAlignment(i) == Steered("alignment", i, AlignmentAt(Heap(boids, ZeroVec), i))

CallCohesion(i) == Steered("cohesion", i, CohesionAt(Heap(boids, ZeroVec), i))

\* seek(target), the target one of Targets or the position of a boid.
CallSeek(i, target) == Steered("seek", i, SeekAt(Heap(boids, target), i, Tmp("arg")))

NextBoid ==
    \E i \in 1..NumBoids :
        \/ \E f \in Forces : CallApplyForce(i, f)
        \/ CallFlock(i)
        \/ CallUpdate(i)
        \/ CallUpdateWithWrap(i)
        \/ CallSeparation(i)
        \/ CallAlignment(i)
        \/ CallCohesion(i)
        \/ \E target \in Targets \cup {boids[k].position : k \in 1..NumBoids} :
               CallSeek(i, target)

SpecBoid == Init /\ [][NextBoid]_vars

(***************************************************************************)
(* The calls that write the boids, without the steering calls: flock() on  *)
(* boids that were built, had forces applied and were updated.             *)
(***************************************************************************)
NextFlock ==
    \E i \in 1..NumBoids :
        \/ \E f \in Forces : CallApplyForce(i, f)
        \/ CallFlock(i)
        \/ CallUpdate(i)
        \/ CallUpdateWithWrap(i)

SpecFlock == Init /\ [][NextFlock]_vars

(***************************************************************************)
(* Properties.                                                             *)
(***************************************************************************)
Boids == 1..NumBoids

\* BOUNDS_MIN[a] <= p[a] <= BOUNDS_MAX[a] on every axis; false of NaN.
InBounds(p) ==
    /\ ~p.nan
    /\ \A a \in Axes : BOUNDS_MIN[a] <= p[a] /\ p[a] <= BOUNDS_MAX[a]

\* |v| <= m; false of NaN.
WithinLength(v, m) == ~v.nan /\ LengthSq(v) <= m * m

\* C1: after every update() and every updateWithWrap() call each component
\* of the position of the boid lies within the bounds.
C1_PositionInBounds ==
    \A i \in Boids : last[i].called => InBounds(boids[i].position)

\* What does hold of the positions: within the bounds, or NaN.
C1_InBoundsOrNaN ==
    \A i \in Boids :
        last[i].called => (boids[i].position.nan \/ InBounds(boids[i].position))

\* C2: the velocity the constructor produces and the velocity after every
\* update() or updateWithWrap() call has magnitude at most MAX_SPEED.
C2_SpeedBounded ==
    \A i \in Boids : WithinLength(boids[i].velocity, MAX_SPEED)

\* What does hold of the velocities: at most MAX_SPEED, or NaN.
C2_BoundedOrNaN ==
    \A i \in Boids :
        boids[i].velocity.nan \/ WithinLength(boids[i].velocity, MAX_SPEED)

\* C3: every flock() call of a tick reads, of every other boid, the position
\* and the velocity that boid had when the tick began.
C3_FlockReadsPreUpdate ==
    \A k \in 1..Len(tick.views) : \A j \in Boids \ {k} :
        /\ tick.views[k][j].position = tick.start[j].position
        /\ tick.views[k][j].velocity = tick.start[j].velocity

\* C4: at most one animate callback is pending at any time, and no frame
\* runs the loop of animate() more than once.
C4_OneLoopPerFrame == pending <= 1 /\ frameSteps <= 1

\* C5: every run of the loop of animate() ends without an error, with
\* flock() and then update() called on every boid.
C5_TickCompletes ==
    tick.start # <<>> =>
        /\ ~tick.threw
        /\ Len(tick.views) = NumBoids
        /\ tick.updated = NumBoids

\* C6: between two handlers (at every frame boundary) the acceleration of
\* every boid is the zero vector.
C6_AccelerationZero ==
    \A i \in Boids : boids[i].acceleration = ZeroVec

\* C7: while the simulation is paused the boids are the boids of the moment
\* of pausing, whatever handler runs, and the loop the resume runs starts
\* from exactly those boids.
C7_PausedFrozen ==
    [][~animating =>
           /\ boids = pausedSnap
           /\ IF animating' THEN tick'.start = pausedSnap ELSE boids' = boids]_vars

\* A resume after a pause during which the pending callback fired (pending
\* went to 0 and the resume scheduled one), the pointer having visited the
\* box and left it: the loop of the resume started from the paused boids
\* and has updated every one of them.
C7_Witness ==
    /\ animating /\ pausedSnap # <<>> /\ pending = 1
    /\ targetMarker.position # ZeroVec /\ mouse3D.null
    /\ tick.start = pausedSnap
    /\ tick.updated = NumBoids
    /\ boids # pausedSnap

\* C8: every steering operation returns a defined vector of magnitude at
\* most MAX_FORCE.
C8_SteeringBounded ==
    ret.called => WithinLength(ret.value, MAX_FORCE)

\* What does hold of the steering vectors: at most MAX_FORCE, or NaN.
C8_BoundedOrNaN ==
    ret.called => (ret.value.nan \/ WithinLength(ret.value, MAX_FORCE))

\* The boundary step of update() on the axis a, from the integrated boid
\* mid to the boid b it leaves.
ReflectedOnAxis(mid, b, a) ==
    /\ mid.position[a] > BOUNDS_MAX[a] =>
           b.position[a] = BOUNDS_MAX[a] /\ b.velocity[a] = 0 - mid.velocity[a]
    /\ mid.position[a] < BOUNDS_MIN[a] =>
           b.position[a] = BOUNDS_MIN[a] /\ b.velocity[a] = 0 - mid.velocity[a]
    /\ (BOUNDS_MIN[a] <= mid.position[a] /\ mid.position[a] <= BOUNDS_MAX[a]) =>
           b.position[a] = mid.position[a] /\ b.velocity[a] = mid.velocity[a]

\* C9: update() treats each axis on its own: a position beyond a bound is
\* set to that bound and the velocity on that axis is negated, and an axis
\* whose integrated position is inside the bounds keeps position and velocity.
C9_ReflectPerAxis ==
    \A i \in Boids :
        (last[i].called /\ last[i].method = "update" /\ ~last[i].mid.position.nan) =>
            \A a \in Axes : ReflectedOnAxis(last[i].mid, boids[i], a)

\* An update() that crossed BOUNDS_MAX on y while moving, inside the bounds,
\* on x.
C9_Witness ==
    \E i \in Boids :
        /\ last[i].called /\ last[i].method = "update"
        /\ last[i].mid.position.y > BOUNDS_MAX.y
        /\ last[i].mid.velocity.y > 0
        /\ boids[i].velocity.y = 0 - last[i].mid.velocity.y
        /\ last[i].mid.velocity.x # 0
        /\ boids[i].position.x = last[i].mid.position.x

\* C10: an update() or updateWithWrap() call whose velocity is the zero
\* vector after integration and clamping leaves mesh.quaternion as it was.
C10_ZeroVelocityKeepsOrientation ==
    \A i \in Boids :
        (last[i].called /\ last[i].mid.velocity = ZeroVec) =>
            boids[i].mesh.quaternion = last[i].quaternion

\* What flock() of boids[i] adds to the acceleration, computed from the
\* boids bs: 1.5 * separation + 1.0 * alignment + 1.0 * cohesion.
FlockForce(bs, i) ==
    Add(Add(MultiplyScalar(Separation(bs, i), (3 * Unit) \div 2),
            MultiplyScalar(Alignment(bs, i), Unit)),
        MultiplyScalar(Cohesion(bs, i), Unit))

\* C11: a call a.flock(boids), with the separation, alignment, cohesion and
\* seek calls inside it, changes nothing but a.acceleration, which grows by
\* 1.5 * separation + 1.0 * alignment + 1.0 * cohesion: the position, the
\* velocity and the mesh of a, and every other boid as a whole, are what
\* they were before the call (and stay so through the steering calls that
\* follow it in the class harness).
C11_FlockChangesOnlyAcceleration ==
    flocked.called =>
        /\ \A j \in Boids \ {flocked.boid} : boids[j] = flocked.before[j]
        /\ boids[flocked.boid].position = flocked.before[flocked.boid].position
        /\ boids[flocked.boid].velocity = flocked.before[flocked.boid].velocity
        /\ boids[flocked.boid].mesh = flocked.before[flocked.boid].mesh
        /\ boids[flocked.boid].acceleration =
               Add(flocked.before[flocked.boid].acceleration,
                   FlockForce(flocked.before, flocked.boid))

\* A flock() call of a boid that had a force applied before, with the other
\* boid nearer than DESIRED_SEPARATION: separation, alignment and cohesion
\* all returned a force, none of them NaN, and the acceleration grew.
C11_Witness ==
    /\ flocked.called
    /\ flocked.before[flocked.boid].acceleration # ZeroVec
    /\ Separation(flocked.before, flocked.boid) \notin {ZeroVec, NaNVec}
    /\ Alignment(flocked.before, flocked.boid) \notin {ZeroVec, NaNVec}
    /\ Cohesion(flocked.before, flocked.boid) \notin {ZeroVec, NaNVec}
    /\ boids[flocked.boid].acceleration # flocked.before[flocked.boid].acceleration

=============================================================================
